---- MODULE Spec2Model ----
(***************************************************************************)
(* Conway's Game of Life as implemented in src/gameOfLife.js: the board,   *)
(* the play/pause flag, the play button's label and the canvas, driven by  *)
(* the mousedown, play-click, reset-click and interval-timer handlers.     *)
(* The browser runs one handler at a time and each runs to completion, so  *)
(* every handler is one action.                                             *)
(*                                                                         *)
(* The board of the source is 25 x 25 tiles.  The model scales it down and *)
(* fixes its size when the page loads (the variable tiles, which no        *)
(* handler changes): 3 tiles high and SmallBoardWide tiles wide, the bound *)
(* that is varied, under every specification but SpecGlider, which loads a *)
(* square board with room for a glider to travel.  Every tile has 2 x 2    *)
(* pixels of canvas.                                                        *)
(***************************************************************************)
EXTENDS Integers, FiniteSets, Sequences, TLC

VARIABLES board, stray, canvasColor, isPlaying, playButtonValue,
          listening, thrown, lastOp, tick, tiles

vars == <<board, stray, canvasColor, isPlaying, playButtonValue,
          listening, thrown, lastOp, tick, tiles>>

----------------------------------------------------------------------------
(* Constants of the program *)

SmallBoardWide == 3

SmallBoardHigh == 3

GliderBoardSide == 4

NUM_TILES_WIDE == tiles.wide

NUM_TILES_HIGH == tiles.high

CANVAS_WIDTH == 2 * NUM_TILES_WIDE

CANVAS_HEIGHT == 2 * NUM_TILES_HIGH

TILE_WIDTH == CANVAS_WIDTH \div NUM_TILES_WIDE

TILE_HEIGHT == CANVAS_HEIGHT \div NUM_TILES_HIGH

DEAD == 1

ALIVE == 2

PENDING_DEAD == 3

PENDING_ALIVE == 4

DEAD_COLOR == "black"

ALIVE_COLOR == "yellow"

\* An array slot never assigned, as left by new Array(n).
UNDEFINED == 0

\* A tile of the canvas nothing has been drawn on.
BLANK == "blank"

\* JavaScript's values of isPlaying: declared without a value, then a boolean.
JS_UNDEFINED == "undefined"

JS_FALSE == "false"

JS_TRUE == "true"

Truthy(v) == v = JS_TRUE

XRange == 0 .. NUM_TILES_WIDE - 1

YRange == 0 .. NUM_TILES_HIGH - 1

\* Indices outside 0 .. NUM_TILES_HIGH - 1 that a click below the canvas maps to.
StrayYRange == {NUM_TILES_HIGH}

----------------------------------------------------------------------------
(* The program's state as one record, so that the functions of the source  *)
(* are operators from state to state.                                       *)

\* drawn collects the calls of drawTile the running handler has made, each
\* as <<xPos, yPos, color>>; a handler starts with none.
World == [board |-> board, stray |-> stray, canvasColor |-> canvasColor,
          isPlaying |-> isPlaying, playButtonValue |-> playButtonValue,
          thrown |-> thrown, drawn |-> {}]

\* board[xPos][yPos] as JavaScript reads it: an index outside the column's
\* length is a property that is undefined until it is assigned.
readBoard(w, xPos, yPos) ==
    IF yPos \in YRange THEN w.board[xPos][yPos] ELSE w.stray[xPos][yPos]

\* fillRect paints the tile's square; outside the canvas it paints nothing.
drawTile(w, xPos, yPos, color) ==
    LET w1 == [w EXCEPT !.drawn = @ \cup {<<xPos, yPos, color>>}]
    IN  IF xPos \in XRange /\ yPos \in YRange
        THEN [w1 EXCEPT !.canvasColor[xPos][yPos] = color]
        ELSE w1

writeBoard(w, xPos, yPos, lifeStatus) ==
    IF yPos \in YRange
    THEN [w EXCEPT !.board[xPos][yPos] = lifeStatus]
    ELSE [w EXCEPT !.stray[xPos][yPos] = lifeStatus]

\* Variants of setTile: one does not draw a tile set alive, one draws every
\* settled tile in the dead colour.
setTile_SkipsAliveDraw(w, xPos, yPos, lifeStatus) ==
    LET w1 == writeBoard(w, xPos, yPos, lifeStatus)
    IN  IF lifeStatus = DEAD THEN drawTile(w1, xPos, yPos, DEAD_COLOR) ELSE w1

setTile_AlwaysDeadColor(w, xPos, yPos, lifeStatus) ==
    LET w1 == writeBoard(w, xPos, yPos, lifeStatus)
    IN  IF lifeStatus = DEAD THEN drawTile(w1, xPos, yPos, DEAD_COLOR)
        ELSE IF lifeStatus = ALIVE THEN drawTile(w1, xPos, yPos, DEAD_COLOR)
        ELSE w1

setTile(w, xPos, yPos, lifeStatus) ==
    LET w1 == writeBoard(w, xPos, yPos, lifeStatus)
    IN  IF lifeStatus = DEAD THEN drawTile(w1, xPos, yPos, DEAD_COLOR)
        ELSE IF lifeStatus = ALIVE THEN drawTile(w1, xPos, yPos, ALIVE_COLOR)
        ELSE w1

\* The nested loops of the source visit tile k-th in the order i outer, j inner.
TileX(k) == k \div NUM_TILES_HIGH

TileY(k) == k % NUM_TILES_HIGH

NumTiles == NUM_TILES_WIDE * NUM_TILES_HIGH

\* The loops of a handler from the k-th tile on; an exception ends them.
RECURSIVE clearFrom(_, _)
clearFrom(w, k) ==
    IF w.thrown \/ k >= NumTiles THEN w
    ELSE clearFrom(setTile(w, TileX(k), TileY(k), DEAD), k + 1)

\* Variants of clearBoard: one leaves isPlaying as it was, one starts its
\* loops at the second tile.
clearBoard_KeepsPlaying(w) ==
    clearFrom([w EXCEPT !.playButtonValue = "Play"], 0)

clearBoard_SkipsFirstTile(w) ==
    clearFrom([w EXCEPT !.playButtonValue = "Play", !.isPlaying = JS_FALSE], 1)

clearBoard(w) ==
    clearFrom([w EXCEPT !.playButtonValue = "Play", !.isPlaying = JS_FALSE], 0)

FloorDiv(a, b) == a \div b

\* Variant of mousePositionToTile: the two coordinates exchanged.
mousePositionToTile_Swapped(xMousePos, yMousePos) ==
    [xPos |-> FloorDiv(yMousePos, TILE_HEIGHT),
     yPos |-> FloorDiv(xMousePos, TILE_WIDTH)]

mousePositionToTile(xMousePos, yMousePos) ==
    [xPos |-> FloorDiv(xMousePos, TILE_WIDTH),
     yPos |-> FloorDiv(yMousePos, TILE_HEIGHT)]

\* Variant of changeTile: without the test of isPlaying.
changeTile_Ungated(w, offsetX, offsetY) ==
    LET mouseCoordinates == mousePositionToTile(offsetX, offsetY)
        xPos == mouseCoordinates.xPos
        yPos == mouseCoordinates.yPos
    IN  IF xPos \notin XRange
        THEN [w EXCEPT !.thrown = TRUE]
        ELSE IF readBoard(w, xPos, yPos) = DEAD
             THEN setTile(w, xPos, yPos, ALIVE)
             ELSE setTile(w, xPos, yPos, DEAD)

changeTile(w, offsetX, offsetY) ==
    IF ~Truthy(w.isPlaying)
    THEN LET mouseCoordinates == mousePositionToTile(offsetX, offsetY)
             xPos == mouseCoordinates.xPos
             yPos == mouseCoordinates.yPos
         IN  IF xPos \notin XRange
             THEN [w EXCEPT !.thrown = TRUE]  \* board[xPos] is undefined: TypeError
             ELSE IF readBoard(w, xPos, yPos) = DEAD
                  THEN setTile(w, xPos, yPos, ALIVE)
                  ELSE setTile(w, xPos, yPos, DEAD)
    ELSE w

\* Variant of isTileAlive: a tile pending dead no longer counts as alive.
isTileAlive_IgnoresPending(w, xPos, yPos) ==
    w.board[xPos][yPos] = ALIVE

\* Variant of isTileAlive: a tile pending alive already counts as alive.
isTileAlive_CountsPendingAlive(w, xPos, yPos) ==
    \/ w.board[xPos][yPos] = ALIVE
    \/ w.board[xPos][yPos] = PENDING_DEAD
    \/ w.board[xPos][yPos] = PENDING_ALIVE

isTileAlive(w, xPos, yPos) ==
    w.board[xPos][yPos] = ALIVE \/ w.board[xPos][yPos] = PENDING_DEAD

\* Variants of examinedNeighbors: one also examines the tile itself, one
\* wraps around the board's edges.
examinedNeighbors_WithSelf(xPos, yPos) ==
    {t \in (xPos - 1 .. xPos + 1) \X (yPos - 1 .. yPos + 1) :
        /\ t[1] >= 0 /\ t[1] < NUM_TILES_WIDE
        /\ t[2] >= 0 /\ t[2] < NUM_TILES_HIGH}

\* Variant of examinedNeighbors: without the four diagonal tiles.
examinedNeighbors_NoDiagonals(xPos, yPos) ==
    {t \in (xPos - 1 .. xPos + 1) \X (yPos - 1 .. yPos + 1) :
        /\ t[1] >= 0 /\ t[1] < NUM_TILES_WIDE
        /\ t[2] >= 0 /\ t[2] < NUM_TILES_HIGH
        /\ (t[1] = xPos) # (t[2] = yPos)}

examinedNeighbors_Wraps(xPos, yPos) ==
    {<<t[1] % NUM_TILES_WIDE, t[2] % NUM_TILES_HIGH>> :
        t \in {u \in (xPos - 1 .. xPos + 1) \X (yPos - 1 .. yPos + 1) :
                  ~(u[1] = xPos /\ u[2] = yPos)}}

\* The tiles the double loop of getNumAliveNeighbors passes to isTileAlive:
\* those of the 3 x 3 window that pass the tests standing before it in the
\* condition.
examinedNeighbors(xPos, yPos) ==
    {t \in (xPos - 1 .. xPos + 1) \X (yPos - 1 .. yPos + 1) :
        /\ t[1] >= 0 /\ t[1] < NUM_TILES_WIDE
        /\ t[2] >= 0 /\ t[2] < NUM_TILES_HIGH
        /\ ~(t[1] = xPos /\ t[2] = yPos)}

\* The tiles the double loop of getNumAliveNeighbors counts.
countedNeighbors(w, xPos, yPos) ==
    {t \in examinedNeighbors(xPos, yPos) : isTileAlive(w, t[1], t[2])}

getNumAliveNeighbors(w, xPos, yPos) == Cardinality(countedNeighbors(w, xPos, yPos))

\* Variants of markTile: one lets a tile die of crowding with three
\* neighbours already, one kills a tile at once instead of marking it.
markTile_CrowdedAtThree(w, i, j) ==
    LET numAliveNeighbors == getNumAliveNeighbors(w, i, j)
    IN  IF w.board[i][j] = ALIVE /\ (numAliveNeighbors < 2 \/ numAliveNeighbors > 2)
        THEN setTile(w, i, j, PENDING_DEAD)
        ELSE IF w.board[i][j] = DEAD /\ numAliveNeighbors = 3
             THEN setTile(w, i, j, PENDING_ALIVE)
             ELSE w

markTile_KillsAtOnce(w, i, j) ==
    LET numAliveNeighbors == getNumAliveNeighbors(w, i, j)
    IN  IF w.board[i][j] = ALIVE /\ (numAliveNeighbors < 2 \/ numAliveNeighbors > 3)
        THEN setTile(w, i, j, DEAD)
        ELSE IF w.board[i][j] = DEAD /\ numAliveNeighbors = 3
             THEN setTile(w, i, j, PENDING_ALIVE)
             ELSE w

\* Variant of markTile: a tile comes to life at once instead of being marked.
markTile_RevivesAtOnce(w, i, j) ==
    LET numAliveNeighbors == getNumAliveNeighbors(w, i, j)
    IN  IF w.board[i][j] = ALIVE /\ (numAliveNeighbors < 2 \/ numAliveNeighbors > 3)
        THEN setTile(w, i, j, PENDING_DEAD)
        ELSE IF w.board[i][j] = DEAD /\ numAliveNeighbors = 3
             THEN setTile(w, i, j, ALIVE)
             ELSE w

\* The body of playGame's loops for one tile.
markTile(w, i, j) ==
    LET numAliveNeighbors == getNumAliveNeighbors(w, i, j)
    IN  IF w.board[i][j] = ALIVE /\ (numAliveNeighbors < 2 \/ numAliveNeighbors > 3)
        THEN setTile(w, i, j, PENDING_DEAD)
        ELSE IF w.board[i][j] = DEAD /\ numAliveNeighbors = 3
             THEN setTile(w, i, j, PENDING_ALIVE)
             ELSE w

\* playGame's loops from the k-th tile on.
RECURSIVE markFrom(_, _)
markFrom(w, k) ==
    IF w.thrown \/ k >= NumTiles THEN w
    ELSE markFrom(markTile(w, TileX(k), TileY(k)), k + 1)

\* playGame's marking pass with its loops visiting the tiles in the given
\* order, a sequence of tiles.
RECURSIVE markInOrder(_, _)
markInOrder(w, order) ==
    IF w.thrown \/ order = <<>> THEN w
    ELSE markInOrder(markTile(w, Head(order)[1], Head(order)[2]), Tail(order))

\* The order of the source's loops: i outer, j inner.
CodeOrder == [n \in 1 .. NumTiles |-> <<TileX(n - 1), TileY(n - 1)>>]

\* Variant of refreshTile: tiles pending alive are left as they are.
refreshTile_DeadOnly(w, i, j) ==
    IF w.board[i][j] = PENDING_DEAD THEN setTile(w, i, j, DEAD) ELSE w

refreshTile(w, i, j) ==
    IF w.board[i][j] = PENDING_DEAD THEN setTile(w, i, j, DEAD)
    ELSE IF w.board[i][j] = PENDING_ALIVE THEN setTile(w, i, j, ALIVE)
    ELSE w

RECURSIVE refreshFrom(_, _)
refreshFrom(w, k) ==
    IF w.thrown \/ k >= NumTiles THEN w
    ELSE refreshFrom(refreshTile(w, TileX(k), TileY(k)), k + 1)

refreshBoard(w) == refreshFrom(w, 0)

\* Variant of playGame: without the test of isPlaying.
playGame_Unguarded(w) == refreshBoard(markFrom(w, 0))

\* Variant of playGame: a tick that changes no tile stops the game.
playGame_StopsWhenStable(w) ==
    IF Truthy(w.isPlaying)
    THEN LET w1 == refreshBoard(markFrom(w, 0))
         IN  IF w1.board = w.board
             THEN [w1 EXCEPT !.playButtonValue = "Play", !.isPlaying = JS_FALSE]
             ELSE w1
    ELSE w

playGame(w) ==
    IF Truthy(w.isPlaying) THEN refreshBoard(markFrom(w, 0)) ELSE w

\* Variants of playOrPause: one never pauses, one leaves the label alone.
playOrPause_OnlyPlays(w) ==
    [w EXCEPT !.playButtonValue = "Pause", !.isPlaying = JS_TRUE]

playOrPause_StaleLabel(w) ==
    IF Truthy(w.isPlaying)
    THEN [w EXCEPT !.isPlaying = JS_FALSE]
    ELSE [w EXCEPT !.isPlaying = JS_TRUE]

playOrPause(w) ==
    IF Truthy(w.isPlaying)
    THEN [w EXCEPT !.playButtonValue = "Play", !.isPlaying = JS_FALSE]
    ELSE [w EXCEPT !.playButtonValue = "Pause", !.isPlaying = JS_TRUE]

----------------------------------------------------------------------------
(* The state machine *)

\* What the page's markup may give the button before setup runs.
InitialLabels == {"", "Play", "Pause"}

\* Where playGame stands: idle between handlers; inside a tick, the pass it
\* is in (marking, then refreshing), the index k of the tile its loops are
\* at, how many tiles have had their neighbours counted, and the board as
\* the tick found it.
NoBoard == [x \in XRange |-> [y \in YRange |-> UNDEFINED]]

Idle == [phase |-> "idle", k |-> 0, counted |-> 0, before |-> NoBoard]

\* The page as loaded, before setup, with a board of the size tiles.
Loaded ==
    /\ board = [x \in XRange |-> [y \in YRange |-> UNDEFINED]]
    /\ stray = [x \in XRange |-> [y \in StrayYRange |-> UNDEFINED]]
    /\ canvasColor = [x \in XRange |-> [y \in YRange |-> BLANK]]
    /\ isPlaying = JS_UNDEFINED
    /\ playButtonValue \in InitialLabels
    /\ listening = FALSE
    /\ thrown = FALSE
    /\ lastOp = "load"
    /\ tick = Idle

Init ==
    /\ tiles = [wide |-> SmallBoardWide, high |-> SmallBoardHigh]
    /\ Loaded

\* A handler ran from the state w0 to the state w.
Becomes(w, op) ==
    /\ board' = w.board
    /\ stray' = w.stray
    /\ canvasColor' = w.canvasColor
    /\ isPlaying' = w.isPlaying
    /\ playButtonValue' = w.playButtonValue
    /\ thrown' = w.thrown
    /\ lastOp' = op
    /\ tick' = Idle
    /\ tiles' = tiles

\* Each handler starts with no exception pending.
Fresh == [World EXCEPT !.thrown = FALSE]

Setup ==
    /\ ~listening
    /\ listening' = TRUE
    /\ Becomes(clearBoard(Fresh), "setup")

\* Positions of the pointer over the canvas.
CanvasXs == 0 .. CANVAS_WIDTH - 1

CanvasYs == 0 .. CANVAS_HEIGHT - 1

\* mousedown on the canvas.
ChangeTile ==
    /\ listening
    /\ \E offsetX \in CanvasXs, offsetY \in CanvasYs :
          Becomes(changeTile(Fresh, offsetX, offsetY), "changeTile")
    /\ UNCHANGED listening

\* click on the play button.
PlayOrPause ==
    /\ listening
    /\ Becomes(playOrPause(Fresh), "playOrPause")
    /\ UNCHANGED listening

\* click on the reset button.
ClearBoard ==
    /\ listening
    /\ Becomes(clearBoard(Fresh), "clearBoard")
    /\ UNCHANGED listening

\* the interval timer fires.
PlayGame ==
    /\ listening
    /\ Becomes(playGame(Fresh), "playGame")
    /\ UNCHANGED listening

Next == Setup \/ ChangeTile \/ PlayOrPause \/ ClearBoard \/ PlayGame

Spec == Init /\ [][Next]_vars

\* The five tiles of the glider that heads down and to the right, in the
\* 3 x 3 box whose top left tile is o.
Glider(o) ==
    {<<o[1] + 1, o[2]>>, <<o[1] + 2, o[2] + 1>>,
     <<o[1], o[2] + 2>>, <<o[1] + 1, o[2] + 2>>, <<o[1] + 2, o[2] + 2>>}

\* A square board with room for the glider to travel, on which the mouse is
\* pressed only over the five tiles of the glider in the top left corner,
\* and only while no tile is Alive anywhere else.
InitGlider ==
    /\ tiles = [wide |-> GliderBoardSide, high |-> GliderBoardSide]
    /\ Loaded

ChangeTileOnGlider ==
    /\ listening
    /\ \A x \in XRange, y \in YRange :
          board[x][y] = ALIVE => <<x, y>> \in Glider(<<0, 0>>)
    /\ \E offsetX \in CanvasXs, offsetY \in CanvasYs :
          LET mouseCoordinates == mousePositionToTile(offsetX, offsetY)
          IN  /\ <<mouseCoordinates.xPos, mouseCoordinates.yPos>> \in Glider(<<0, 0>>)
              /\ Becomes(changeTile(Fresh, offsetX, offsetY), "changeTile")
    /\ UNCHANGED listening

NextGlider == Setup \/ ChangeTileOnGlider \/ PlayOrPause \/ ClearBoard \/ PlayGame

SpecGlider == InitGlider /\ [][NextGlider]_vars

\* Positions a mousedown can report on and just beyond the canvas's edges:
\* one tile to the left, to the right and below.
EdgeXs == -TILE_WIDTH .. CANVAS_WIDTH + TILE_WIDTH - 1

EdgeYs == 0 .. CANVAS_HEIGHT + TILE_HEIGHT - 1

ChangeTileAnywhere ==
    /\ listening
    /\ \E offsetX \in EdgeXs, offsetY \in EdgeYs :
          Becomes(changeTile(Fresh, offsetX, offsetY), "changeTile")
    /\ UNCHANGED listening

NextMouse == Setup \/ ChangeTileAnywhere \/ PlayOrPause \/ ClearBoard \/ PlayGame

SpecMouse == Init /\ [][NextMouse]_vars

----------------------------------------------------------------------------
(* The same program with playGame taken one loop iteration at a time, to   *)
(* observe the board inside a tick.  JavaScript runs a handler to its end  *)
(* before it dispatches the next event, so the other handlers wait until   *)
(* the tick is over.                                                        *)

\* One iteration of a loop of playGame ran from the state w0 to the state w.
Steps(w, t) ==
    /\ board' = w.board
    /\ stray' = w.stray
    /\ canvasColor' = w.canvasColor
    /\ isPlaying' = w.isPlaying
    /\ playButtonValue' = w.playButtonValue
    /\ thrown' = w.thrown
    /\ lastOp' = "playGame"
    /\ tick' = t
    /\ UNCHANGED <<listening, tiles>>

\* The loops of playGame end and refreshBoard is called.
afterMarkTile(t) ==
    IF t.k + 1 < NumTiles
    THEN [t EXCEPT !.phase = "mark", !.k = t.k + 1, !.counted = t.counted + 1]
    ELSE [t EXCEPT !.phase = "refresh", !.k = 0, !.counted = t.counted + 1]

\* The loops of refreshBoard end and playGame returns.
afterRefreshTile(t) ==
    IF t.k + 1 < NumTiles THEN [t EXCEPT !.k = t.k + 1] ELSE Idle

\* The interval timer fires: playGame tests isPlaying and enters its loops.
TickStart ==
    /\ listening /\ tick.phase = "idle"
    /\ IF Truthy(isPlaying)
       THEN Steps(Fresh, [phase |-> "mark", k |-> 0, counted |-> 0, before |-> board])
       ELSE Steps(Fresh, Idle)

MarkStep ==
    /\ tick.phase = "mark"
    /\ Steps(markTile(World, TileX(tick.k), TileY(tick.k)), afterMarkTile(tick))

RefreshStep ==
    /\ tick.phase = "refresh"
    /\ Steps(refreshTile(World, TileX(tick.k), TileY(tick.k)), afterRefreshTile(tick))

BetweenHandlers == tick.phase = "idle"

NextSteps ==
    \/ Setup
    \/ BetweenHandlers /\ ChangeTile
    \/ BetweenHandlers /\ PlayOrPause
    \/ BetweenHandlers /\ ClearBoard
    \/ TickStart
    \/ MarkStep
    \/ RefreshStep

SpecSteps == Init /\ [][NextSteps]_vars

TypeOK ==
    /\ board \in [XRange -> [YRange -> {UNDEFINED, DEAD, ALIVE, PENDING_DEAD, PENDING_ALIVE}]]
    /\ isPlaying \in {JS_UNDEFINED, JS_FALSE, JS_TRUE}
    /\ listening \in BOOLEAN

----------------------------------------------------------------------------
(* Conway's rule, stated on its own: every tile's next state from the      *)
(* number of Alive tiles among its neighbours on a board without wrapping. *)

Abs(n) == IF n < 0 THEN -n ELSE n

Tiles == XRange \X YRange

AliveNeighbours(b, x, y) ==
    Cardinality({t \in Tiles :
        /\ t # <<x, y>>
        /\ Abs(t[1] - x) <= 1
        /\ Abs(t[2] - y) <= 1
        /\ b[t[1]][t[2]] = ALIVE})

ConwayNext(b) ==
    [x \in XRange |-> [y \in YRange |->
        LET n == AliveNeighbours(b, x, y)
        IN  IF b[x][y] = ALIVE /\ (n < 2 \/ n > 3) THEN DEAD
            ELSE IF b[x][y] = DEAD /\ n = 3 THEN ALIVE
            ELSE b[x][y]]]

Settled(b) == \A t \in Tiles : b[t[1]][t[2]] \in {DEAD, ALIVE}

AllDead(b) == \A t \in Tiles : b[t[1]][t[2]] = DEAD

Running == Truthy(isPlaying)

Paused == ~Truthy(isPlaying)

\* The tile whose square of the canvas holds the pixel (px, py).
TileUnder(px, py) ==
    CHOOSE t \in Tiles :
        /\ t[1] * TILE_WIDTH <= px /\ px < (t[1] + 1) * TILE_WIDTH
        /\ t[2] * TILE_HEIGHT <= py /\ py < (t[2] + 1) * TILE_HEIGHT

Flipped(s) == IF s = DEAD THEN ALIVE ELSE DEAD

----------------------------------------------------------------------------
(* C1: for every grid whose cells are all Dead or Alive, one tick while    *)
(* Running (playGame with its refreshBoard) leaves the grid equal to one   *)
(* generation of Conway's rule computed from the pre-tick grid on a        *)
(* non-wrapping board.                                                      *)
C1_TickIsOneGeneration ==
    (listening /\ Running /\ Settled(board))
        => playGame(Fresh).board = ConwayNext(board)

\* A running board, itself left by a tick, on which the next tick kills a
\* tile by crowding, kills one by isolation and brings one to life.
C1_Witness ==
    /\ listening /\ Running /\ lastOp = "playGame"
    /\ \E t \in Tiles : board[t[1]][t[2]] = ALIVE /\ AliveNeighbours(board, t[1], t[2]) > 3
    /\ \E t \in Tiles : board[t[1]][t[2]] = ALIVE /\ AliveNeighbours(board, t[1], t[2]) < 2
    /\ \E t \in Tiles : board[t[1]][t[2]] = DEAD /\ AliveNeighbours(board, t[1], t[2]) = 3
    /\ playGame(Fresh).board # board

(* C2: between events, once setup has run, every cell of the grid is Dead  *)
(* or Alive; PendingDead and PendingAlive exist only inside a tick.        *)
C2_NoPendingBetweenEvents == listening => Settled(board)

\* A tick has just ended, and the marking pass of the next one leaves tiles
\* pending dead and pending alive that its refresh then settles.
C2_Witness ==
    /\ listening /\ Running /\ lastOp = "playGame"
    /\ \E t \in Tiles : markFrom(Fresh, 0).board[t[1]][t[2]] = PENDING_DEAD
    /\ \E t \in Tiles : markFrom(Fresh, 0).board[t[1]][t[2]] = PENDING_ALIVE
    /\ Settled(board)

(* C3: while Running, a mousedown (changeTile) changes no cell of the grid *)
(* and raises no error, wherever the pointer is and whatever the grid.     *)
C3_EditIgnoredWhileRunning ==
    (listening /\ Running) =>
        \A offsetX \in EdgeXs, offsetY \in EdgeYs :
            changeTile(Fresh, offsetX, offsetY) = Fresh

\* A mousedown was handled while running, on a board with Alive and Dead tiles.
C3_Witness ==
    /\ listening /\ Running /\ lastOp = "changeTile"
    /\ \E t \in Tiles : board[t[1]][t[2]] = ALIVE
    /\ \E t \in Tiles : board[t[1]][t[2]] = DEAD

(* C4: while Paused, a mousedown on a tile of the grid flips exactly that  *)
(* tile (Dead to Alive, Alive to Dead) once and leaves every other tile    *)
(* and the running flag unchanged.                                          *)
C4_EditFlipsOneTile ==
    (listening /\ Paused) =>
        \A offsetX \in CanvasXs, offsetY \in CanvasYs :
            LET w == changeTile(Fresh, offsetX, offsetY)
                hit == TileUnder(offsetX, offsetY)
            IN  /\ w.board[hit[1]][hit[2]] = Flipped(board[hit[1]][hit[2]])
                /\ \A t \in Tiles : t # hit => w.board[t[1]][t[2]] = board[t[1]][t[2]]
                /\ w.isPlaying = isPlaying
                /\ w.thrown = FALSE

\* A mousedown was handled while paused and left Alive tiles beside Dead ones.
C4_Witness ==
    /\ listening /\ Paused /\ lastOp = "changeTile"
    /\ \E t \in Tiles : board[t[1]][t[2]] = ALIVE
    /\ \E t \in Tiles : board[t[1]][t[2]] = DEAD
    /\ board[0][1] # board[1][0]

(* C5: from every reachable grid and either running state, a reset         *)
(* (clearBoard) yields a grid of Dead cells and a Paused controller.       *)
C5_ResetClearsAndPauses ==
    /\ listening =>
          LET w == clearBoard(Fresh)
          IN  AllDead(w.board) /\ ~Truthy(w.isPlaying) /\ w.isPlaying = JS_FALSE
    /\ lastOp = "clearBoard" => AllDead(board) /\ Paused

\* A running board with Alive tiles, left by a tick, that a reset clears.
C5_Witness ==
    /\ listening /\ Running /\ lastOp = "playGame"
    /\ \E t \in Tiles : board[t[1]][t[2]] = ALIVE
    /\ AllDead(clearBoard(Fresh).board)

(* C6: a tick delivered while Paused changes nothing and is not queued:    *)
(* after ticks delivered while Paused, a play command followed by one tick *)
(* advances the grid by exactly one generation from the grid as it stood   *)
(* at the play command.                                                     *)
C6_PausedTickDropped ==
    (listening /\ Paused) =>
        /\ playGame(Fresh) = Fresh
        /\ playGame(playOrPause(playGame(playGame(Fresh)))).board = ConwayNext(board)

\* A tick was delivered while paused, on a board whose first and second
\* generations differ from it and from each other.
C6_Witness ==
    /\ listening /\ Paused /\ lastOp = "playGame"
    /\ ConwayNext(board) # board
    /\ ConwayNext(ConwayNext(board)) # ConwayNext(board)

(* C7: playOrPause flips the controller between Paused and Running on      *)
(* every call and leaves every cell of the grid as it was.                 *)
C7_ToggleFlipsAndKeepsGrid ==
    listening =>
        LET w == playOrPause(Fresh)
        IN  /\ Truthy(w.isPlaying) = (~Truthy(isPlaying))
            /\ Truthy(playOrPause(w).isPlaying) = Truthy(isPlaying)
            /\ w.board = board
            /\ playOrPause(w).board = board

\* The game was just paused by the button, with Alive tiles on the board.
C7_Witness ==
    /\ listening /\ Paused /\ lastOp = "playOrPause"
    /\ \E t \in Tiles : board[t[1]][t[2]] = ALIVE

(* C8: after setup the play button reads "Play" exactly when the           *)
(* controller is Paused and "Pause" exactly when it is Running.            *)
C8_LabelReflectsState ==
    listening =>
        /\ (playButtonValue = "Play") = Paused
        /\ (playButtonValue = "Pause") = Running

\* The game was just started by the button and the label reads "Pause".
C8_Witness ==
    /\ listening /\ Running /\ lastOp = "playOrPause"
    /\ playButtonValue = "Pause"

(* C9: coordinates outside the grid never reach the grid: every mouse      *)
(* position is clamped or rejected before a cell is read or written, so    *)
(* the grid keeps its width x height shape, no index outside it is read or *)
(* written and no handler fails.                                            *)
C9_NoOutOfRangeAccess ==
    /\ thrown = FALSE
    /\ \A x \in XRange : \A y \in StrayYRange : stray[x][y] = UNDEFINED

(* C10: when setup has completed, before any event or tick is handled, the *)
(* controller is Paused and every cell of the grid is Dead.                *)
C10_SetupLeavesDeadAndPaused ==
    lastOp = "setup" => (listening /\ AllDead(board) /\ Paused)

\* setup has just run.
C10_Witness == listening /\ lastOp = "setup" /\ playButtonValue = "Play"

----------------------------------------------------------------------------
(* Patterns *)

\* The settled board whose Alive tiles are those of the set alive.
BoardOf(alive) ==
    [x \in XRange |-> [y \in YRange |-> IF <<x, y>> \in alive THEN ALIVE ELSE DEAD]]

HorizontalLine(c) == {<<c[1] - 1, c[2]>>, c, <<c[1] + 1, c[2]>>}

VerticalLine(c) == {<<c[1], c[2] - 1>>, c, <<c[1], c[2] + 1>>}

\* The tiles with a neighbour on every side: the centres a 3-tile line fits
\* around in both directions.
Centres ==
    {c \in Tiles : HorizontalLine(c) \subseteq Tiles /\ VerticalLine(c) \subseteq Tiles}

Block(c) == {c, <<c[1] + 1, c[2]>>, <<c[1], c[2] + 1>>, <<c[1] + 1, c[2] + 1>>}

BlockCorners == {c \in Tiles : Block(c) \subseteq Tiles}

(* C11: a horizontal line of three Alive tiles around a centre tile, on an *)
(* otherwise Dead grid, becomes after one tick while Running the vertical  *)
(* line of three through the same centre, and after a second tick the      *)
(* horizontal line again.                                                   *)
C11_BlinkerOscillates ==
    (listening /\ Running) =>
        \A c \in Centres :
            board = BoardOf(HorizontalLine(c)) =>
                /\ playGame(Fresh).board = BoardOf(VerticalLine(c))
                /\ playGame(playGame(Fresh)).board = BoardOf(HorizontalLine(c))

\* A tick has just left the horizontal line, and the game is running.
C11_Witness ==
    /\ listening /\ Running /\ lastOp = "playGame"
    /\ \E c \in Centres : board = BoardOf(HorizontalLine(c))

(* C12: on a grid whose only Alive tiles form a 2 x 2 block, two ticks     *)
(* while Running leave the grid unchanged after the first and after the    *)
(* second.                                                                  *)
C12_BlockIsStill ==
    (listening /\ Running) =>
        \A c \in BlockCorners :
            board = BoardOf(Block(c)) =>
                /\ playGame(Fresh).board = board
                /\ playGame(playGame(Fresh)).board = board

\* A tick has just left a 2 x 2 block, and the game is running.
C12_Witness ==
    /\ listening /\ Running /\ lastOp = "playGame"
    /\ \E c \in BlockCorners : board = BoardOf(Block(c))

\* The places a glider can stand with room on the board for its four ticks.
GliderOrigins ==
    {o \in Tiles : Glider(o) \cup Glider(<<o[1] + 1, o[2] + 1>>) \subseteq Tiles}

(* C13: on a grid whose only Alive tiles are the five of a glider, four    *)
(* ticks while Running leave the grid with the same five-tile shape one    *)
(* tile further down and one tile further right, and every other tile      *)
(* Dead.                                                                    *)
C13_GliderMoves ==
    (listening /\ Running) =>
        \A o \in GliderOrigins :
            board = BoardOf(Glider(o)) =>
                playGame(playGame(playGame(playGame(Fresh)))).board
                    = BoardOf(Glider(<<o[1] + 1, o[2] + 1>>))

\* A tick has just left the glider one tile down and right of a place it
\* can start from, and the game is running.
C13_Witness ==
    /\ listening /\ Running /\ lastOp = "playGame"
    /\ \E o \in GliderOrigins : board = BoardOf(Glider(<<o[1] + 1, o[2] + 1>>))

----------------------------------------------------------------------------
(* Inside a tick *)

\* The tile the marking pass is at.
Visited == <<TileX(tick.k), TileY(tick.k)>>

\* Taken loop by loop, the tick ends on the board playGame computes at once.
StepsAgreeWithPlayGame ==
    /\ tick.phase = "mark" =>
          refreshBoard(markFrom(World, tick.k)).board = ConwayNext(tick.before)
    /\ tick.phase = "refresh" =>
          refreshFrom(World, tick.k).board = ConwayNext(tick.before)
    /\ (tick.phase # "idle") =>
          playGame([Fresh EXCEPT !.board = tick.before]).board = ConwayNext(tick.before)

(* C14: at every step of the marking pass, the count getNumAliveNeighbors  *)
(* takes for the tile being visited, on the partly marked board, is the    *)
(* number of its neighbours that were Alive when the tick began: it never  *)
(* reflects a neighbour marked earlier in the same tick.                   *)
C14_CountIsPreTickCount ==
    tick.phase = "mark" =>
        getNumAliveNeighbors(World, Visited[1], Visited[2])
            = AliveNeighbours(tick.before, Visited[1], Visited[2])

\* The tile being visited has a neighbour already marked pending dead and
\* one already marked pending alive.
C14_Witness ==
    /\ tick.phase = "mark"
    /\ \E t \in examinedNeighbors(Visited[1], Visited[2]) :
          board[t[1]][t[2]] = PENDING_DEAD
    /\ \E t \in examinedNeighbors(Visited[1], Visited[2]) :
          board[t[1]][t[2]] = PENDING_ALIVE

(* C15: within one tick the marking pass is over for every tile before the *)
(* refreshing pass changes any: while some tile has not had its neighbours *)
(* counted no tile has gone from pending to Dead or Alive, and no edit,    *)
(* play/pause or reset is handled from the start of the tick to its end.   *)
C15_MarkingEndsBeforeRefresh ==
    /\ tick.phase = "refresh" => tick.counted = NumTiles
    /\ tick.phase = "mark" =>
          /\ tick.counted = tick.k /\ tick.counted < NumTiles
          /\ \A t \in Tiles :
                \/ board[t[1]][t[2]] = tick.before[t[1]][t[2]]
                \/ /\ board[t[1]][t[2]] = PENDING_DEAD
                   /\ tick.before[t[1]][t[2]] = ALIVE
                \/ /\ board[t[1]][t[2]] = PENDING_ALIVE
                   /\ tick.before[t[1]][t[2]] = DEAD
    /\ tick.phase # "idle" =>
          /\ lastOp = "playGame"
          /\ Running
          /\ Settled(tick.before)

\* The refreshing pass is under way: it has settled a tile and has a tile
\* pending dead and a tile pending alive still to settle.
C15_Witness ==
    /\ tick.phase = "refresh"
    /\ \E t \in Tiles : board[t[1]][t[2]] = PENDING_DEAD
    /\ \E t \in Tiles : board[t[1]][t[2]] = PENDING_ALIVE
    /\ \E t \in Tiles :
          /\ board[t[1]][t[2]] \in {DEAD, ALIVE}
          /\ board[t[1]][t[2]] # tick.before[t[1]][t[2]]

----------------------------------------------------------------------------
(* Neighbourhoods *)

OnBorderX(t) == t[1] = 0 \/ t[1] = NUM_TILES_WIDE - 1

OnBorderY(t) == t[2] = 0 \/ t[2] = NUM_TILES_HIGH - 1

IsCorner(t) == OnBorderX(t) /\ OnBorderY(t)

IsEdge(t) == (OnBorderX(t) \/ OnBorderY(t)) /\ ~IsCorner(t)

IsInterior(t) == ~OnBorderX(t) /\ ~OnBorderY(t)

Chebyshev(t, u) ==
    IF Abs(t[1] - u[1]) >= Abs(t[2] - u[2]) THEN Abs(t[1] - u[1]) ELSE Abs(t[2] - u[2])

(* C16: getNumAliveNeighbors examines only tiles of the grid at Chebyshev  *)
(* distance 1 from the tile, without wrapping and never the tile itself:   *)
(* at most 3 for a corner tile, at most 5 for an edge tile that is no      *)
(* corner, exactly 8 for an interior tile; its result lies in 0 .. 8.      *)
C16_NeighboursExamined ==
    listening =>
        \A t \in Tiles :
            LET examined == examinedNeighbors(t[1], t[2])
            IN  /\ examined \subseteq Tiles
                /\ t \notin examined
                /\ \A u \in examined : Chebyshev(t, u) = 1
                /\ IsCorner(t) => Cardinality(examined) <= 3
                /\ IsEdge(t) => Cardinality(examined) <= 5
                /\ IsInterior(t) => Cardinality(examined) = 8
                /\ countedNeighbors(Fresh, t[1], t[2]) \subseteq examined
                /\ getNumAliveNeighbors(Fresh, t[1], t[2]) \in 0 .. 8

\* Every tile is Alive: a corner tile counts 3 neighbours, an edge tile 5
\* and an interior tile 8.
C16_Witness ==
    /\ listening
    /\ \A t \in Tiles : board[t[1]][t[2]] = ALIVE
    /\ \E t \in Tiles : IsCorner(t) /\ getNumAliveNeighbors(Fresh, t[1], t[2]) = 3
    /\ \E t \in Tiles : IsEdge(t) /\ getNumAliveNeighbors(Fresh, t[1], t[2]) = 5
    /\ \E t \in Tiles : IsInterior(t) /\ getNumAliveNeighbors(Fresh, t[1], t[2]) = 8

----------------------------------------------------------------------------
(* Rendering *)

\* The colour a settled tile is to be shown in.
ColorOf(s) == IF s = ALIVE THEN ALIVE_COLOR ELSE DEAD_COLOR

\* The colours a handler that ended in w has reported for the tile t.
ReportedFor(w, t) == {r[3] : r \in {q \in w.drawn : q[1] = t[1] /\ q[2] = t[2]}}

(* C17: in a tick while Running, every tile whose state after the tick     *)
(* differs from its state before it is reported to the renderer with its   *)
(* new state, and a tile whose state did not change is not reported.       *)
C17_TickReportsChangedTiles ==
    (listening /\ Running) =>
        LET w == playGame(Fresh)
        IN  \A t \in Tiles :
                IF w.board[t[1]][t[2]] # board[t[1]][t[2]]
                THEN ReportedFor(w, t) = {ColorOf(w.board[t[1]][t[2]])}
                ELSE ReportedFor(w, t) = {}

\* A running board, left by a tick, on which the next tick kills a tile,
\* brings one to life and leaves an Alive one as it is.
C17_Witness ==
    /\ listening /\ Running /\ lastOp = "playGame"
    /\ \E t \in Tiles :
          board[t[1]][t[2]] = ALIVE /\ playGame(Fresh).board[t[1]][t[2]] = DEAD
    /\ \E t \in Tiles :
          board[t[1]][t[2]] = DEAD /\ playGame(Fresh).board[t[1]][t[2]] = ALIVE
    /\ \E t \in Tiles :
          board[t[1]][t[2]] = ALIVE /\ playGame(Fresh).board[t[1]][t[2]] = ALIVE

(* C19: between events, once setup has run, the colour last drawn for each *)
(* tile matches its state: the dead colour for a Dead tile, the alive      *)
(* colour for an Alive tile.                                                *)
C19_CanvasShowsBoard ==
    listening =>
        \A t \in Tiles :
            /\ board[t[1]][t[2]] = DEAD => canvasColor[t[1]][t[2]] = DEAD_COLOR
            /\ board[t[1]][t[2]] = ALIVE => canvasColor[t[1]][t[2]] = ALIVE_COLOR

\* A tick has just run and the canvas shows tiles in both colours.
C19_Witness ==
    /\ listening /\ lastOp = "playGame" /\ Running
    /\ \E t \in Tiles : board[t[1]][t[2]] = ALIVE /\ canvasColor[t[1]][t[2]] = ALIVE_COLOR
    /\ \E t \in Tiles : board[t[1]][t[2]] = DEAD /\ canvasColor[t[1]][t[2]] = DEAD_COLOR
    /\ playGame(Fresh).board # board

----------------------------------------------------------------------------
(* C20: the running flag changes only on a play/pause or reset command:    *)
(* playGame and changeTile leave it as it is in every state, so a Running  *)
(* game takes a step on every tick, also when the grid is all Dead or      *)
(* stable, until it is paused or reset.                                     *)
C20_OnlyCommandsChangeRunning ==
    listening =>
        /\ playGame(Fresh).isPlaying = isPlaying
        /\ playGame(Fresh).playButtonValue = playButtonValue
        /\ \A offsetX \in EdgeXs, offsetY \in EdgeYs :
              changeTile(Fresh, offsetX, offsetY).isPlaying = isPlaying
        /\ Running =>
              /\ playGame(Fresh).board = ConwayNext(board)
              /\ Truthy(playGame(playGame(Fresh)).isPlaying)

\* A tick has just run on a grid that is all Dead, and the game still runs.
C20_Witness ==
    /\ listening /\ Running /\ lastOp = "playGame"
    /\ AllDead(board)
    /\ ConwayNext(board) = board

----------------------------------------------------------------------------
(* Orders of the marking pass *)

\* Row by row: y outer, x inner.
RowMajor ==
    [n \in 1 .. NumTiles |-> <<(n - 1) % NUM_TILES_WIDE, (n - 1) \div NUM_TILES_WIDE>>]

Reversed(s) == [n \in 1 .. Len(s) |-> s[Len(s) + 1 - n]]

\* Both traversals, forwards and backwards.
Orders == {CodeOrder, RowMajor, Reversed(CodeOrder), Reversed(RowMajor)}

\* The tick with its marking pass in the given order.
tickInOrder(w, order) == refreshBoard(markInOrder(w, order))

\* The state w with the tiles of S marked as on the board marked and every
\* other tile as w has it.
MarkedOn(w, marked, S) ==
    [w EXCEPT !.board =
        [x \in XRange |-> [y \in YRange |->
            IF <<x, y>> \in S THEN marked[x][y] ELSE w.board[x][y]]]]

\* From w every order of Orders ends the tick on the board after.
SameAfterEveryOrder(w, after) ==
    \A order \in Orders : tickInOrder(w, order).board = after

\* From w every tile gets the mark it has on the board marked, whichever of
\* its neighbours already carry theirs.  (A neighbour whose mark leaves it
\* as w has it looks the same marked or not, so S ranges over the others.)
SameMarkAfterAnyNeighbours(w, marked) ==
    \A t \in Tiles :
        \A S \in SUBSET {u \in examinedNeighbors(t[1], t[2]) :
                            marked[u[1]][u[2]] # w.board[u[1]][u[2]]} :
            markTile(MarkedOn(w, marked, S), t[1], t[2]).board[t[1]][t[2]]
                = marked[t[1]][t[2]]

(* C18: the result of a tick does not depend on the order in which the     *)
(* marking pass visits the tiles.  For every Dead/Alive grid the code's    *)
(* order, row-major order and the reverse of each give the same grid after *)
(* the tick; and whichever of a tile's neighbours have been marked before  *)
(* it is visited, the tile gets the same mark, which makes the marks, by   *)
(* induction along the order, the same for every permutation of the tiles. *)
C18_OrderIndependent ==
    (listening /\ Running /\ Settled(board)) =>
        /\ markInOrder(Fresh, CodeOrder) = markFrom(Fresh, 0)
        /\ SameAfterEveryOrder(Fresh, playGame(Fresh).board)
        /\ SameMarkAfterAnyNeighbours(Fresh, markFrom(Fresh, 0).board)

\* A running board, left by a tick, on which the next tick marks tiles
\* pending dead and pending alive next to each other, and whose orders
\* differ.
C18_Witness ==
    /\ listening /\ Running /\ lastOp = "playGame"
    /\ CodeOrder # RowMajor
    /\ \E t \in Tiles :
          /\ markFrom(Fresh, 0).board[t[1]][t[2]] = PENDING_ALIVE
          /\ \E u \in examinedNeighbors(t[1], t[2]) :
                markFrom(Fresh, 0).board[u[1]][u[2]] = PENDING_DEAD

====
